---- MODULE Spec2Model ----
(***************************************************************************)
(* Model of ezlog: the GORM logging adapter (src/gorm.go) and the          *)
(* LogBuilder (src/unnamed/part_000, the flag-aware variant at lines       *)
(* 125-273, which is the one src/gorm.go's package compiles with).         *)
(*                                                                         *)
(* Three specifications share the variables:                               *)
(*   SpecGorm  GormLoggerBuilder options, Build, LogMode and the four      *)
(*             callbacks Info/Warn/Error/Trace;                            *)
(*   SpecLog   LogBuilder options, Build and record emission, sequential;  *)
(*   SpecConc  LogBuilder.Build calls interleaved statement by statement.  *)
(*                                                                         *)
(* Text is modelled as a sequence of tokens; a duration is a number of     *)
(* units of 100ms.                                                         *)
(***************************************************************************)
EXTENDS Integers, Sequences, FiniteSets, TLC

VARIABLES
    heap,            \* GormLogger structs by address (index)
    gbuilders,       \* addresses that are the logger field of a GormLoggerBuilder
    built,           \* addresses GormLoggerBuilder.Build has returned
    adapters,        \* addresses the caller holds as adapters (Build or LogMode)
    lastCall,        \* what the last Info/Warn/Error/Trace call did
    lb,              \* LogBuilder structs by address (index)
    loggers,         \* the newLogger variables created by LogBuilder.Build
    logLogger,       \* zerolog/log.Logger (a logger value)
    globalLogger,    \* var globalLogger *zerolog.Logger (an index in loggers, 0 = nil)
    gLevel,          \* zerolog's global minimum level
    timeFieldFormat, \* zerolog.TimeFieldFormat
    output,          \* the last line a built logger rendered
    calls,           \* how many LogBuilder calls the run has made
    builtAsGlobal,   \* history: for each Build call, the builder's isGlobal when it ran
    pc,              \* SpecConc: position of each concurrent Build call
    target,          \* SpecConc: the builder each concurrent Build call runs on
    mine,            \* SpecConc: the newLogger of each concurrent Build call
    writing,         \* SpecConc: the location a call is in the middle of a plain store to
    wrote            \* SpecConc: the process-wide locations each call has stored to

gormVars == <<heap, gbuilders, built, adapters, lastCall>>
logVars  == <<lb, loggers, logLogger, globalLogger, gLevel, timeFieldFormat, output, calls, builtAsGlobal>>
concVars == <<pc, target, mine, writing, wrote>>
vars     == <<heap, gbuilders, built, adapters, lastCall,
              lb, loggers, logLogger, globalLogger, gLevel, timeFieldFormat, output, calls, builtAsGlobal,
              pc, target, mine, writing, wrote>>

(***************************************************************************)
(* Bounds                                                                  *)
(***************************************************************************)
MaxGormObjs == 2
MaxLevel == 5
MaxElapsed == 3

(***************************************************************************)
(* Text helpers                                                            *)
(***************************************************************************)
\* color.New(c).Sprint...: the text between the colour's escape sequence and the reset
Color(c, s) == <<"ESC", "[", c>> \o s \o <<"ESC", "[", "0m">>

(***************************************************************************)
(* gorm.io/gorm/logger levels and the errors the adapter is handed         *)
(***************************************************************************)
Silent == 1
Error == 2
Warn == 3
Info == 4
LogLevels == 0..MaxLevel

DefaultSlowThreshold == 2
Thresholds == {0, DefaultSlowThreshold}
Elapsed == 1..MaxElapsed
Tags == {<<>>, <<"DB">>}
SourceFields == {<<>>, <<"src">>}

\* an error is its Unwrap chain, outermost first; nil is the empty chain
NilErr == <<>>
ErrRecordNotFound == <<"record not found">>
Errs == {NilErr, ErrRecordNotFound, <<"find user", "record not found">>, <<"invalid db">>}

\* errors.Is: some error of the chain is the target
ErrorsIs(err, tgt) == \E i \in 1..Len(err) : err[i] = tgt[1]

\* what fc() returns: the SQL text and the affected rows
FcResults == {[sql |-> "SELECT", rows |-> 1]}

GormDefaults ==
    [logLevel |-> Info, slowThreshold |-> DefaultSlowThreshold, sourceField |-> <<>>,
     skipErrRecordNotFound |-> TRUE, tag |-> <<>>]

NoCall ==
    [op |-> "none", cfg |-> GormDefaults, err |-> NilErr, elapsed |-> 0,
     fcCalls |-> 0, elapsedTaken |-> FALSE, records |-> <<>>]

(***************************************************************************)
(* GormLogger                                                              *)
(***************************************************************************)
\* formatMsg adds the tag to the message if it exists
formatMsg(l, msg) ==
    IF l.tag # <<>>
    THEN Color("35m", <<"[">> \o l.tag \o <<"]">>) \o <<" ">> \o msg
    ELSE msg

SqlLog(elapsed, fr) ==
    <<"elapsed=">> \o Color("33m", <<elapsed>>) \o <<" ", "rows=">> \o Color("36m", <<fr.rows>>)
        \o <<" ", "sql=">> \o Color("32m", <<"\"", fr.sql, "\"">>)

\* one event handed to the log package: log.<Level>()[.Err(err)].Msg(msg)
Event(level, err, msg) == [level |-> level, err |-> err, msg |-> msg]

InfoEnabled(l) == l.logLevel >= Info
\* a gate that is off by one
WarnEnabledOffByOne(l) == l.logLevel > Warn
WarnEnabled(l) == l.logLevel >= Warn
ErrorEnabled(l) == l.logLevel >= Error

InfoRecords(l, msg) == IF InfoEnabled(l) THEN <<Event("info", NilErr, formatMsg(l, msg))>> ELSE <<>>
WarnRecords(l, msg) == IF WarnEnabled(l) THEN <<Event("warn", NilErr, formatMsg(l, msg))>> ELSE <<>>
ErrorRecords(l, msg) == IF ErrorEnabled(l) THEN <<Event("error", NilErr, formatMsg(l, msg))>> ELSE <<>>

\* the suppression test with "and" for "or"
IsErrCaseAnd(l, err) ==
    /\ err # NilErr
    /\ (~l.skipErrRecordNotFound /\ ~ErrorsIs(err, ErrRecordNotFound))
    /\ l.logLevel >= Error

\* first case of Trace's switch
IsErrCase(l, err) ==
    /\ err # NilErr
    /\ (~l.skipErrRecordNotFound \/ ~ErrorsIs(err, ErrRecordNotFound))
    /\ l.logLevel >= Error

\* the slow case gated like the query case
IsSlowCaseInfoGate(l, elapsed) ==
    /\ l.slowThreshold > 0
    /\ elapsed > l.slowThreshold
    /\ l.logLevel >= Info

\* second case of Trace's switch
IsSlowCase(l, elapsed) ==
    /\ l.slowThreshold > 0
    /\ elapsed > l.slowThreshold
    /\ l.logLevel >= Warn

\* the query case gated off by one
IsQueryCaseOffByOne(l) == l.logLevel > Info

\* third case of Trace's switch
IsQueryCase(l) == l.logLevel >= Info

TraceSwitch(l, elapsed, fr, err) ==
    IF IsErrCase(l, err)
    THEN <<Event("error", err, formatMsg(l, <<"gorm error ">> \o SqlLog(elapsed, fr)))>>
    ELSE IF IsSlowCase(l, elapsed)
    THEN <<Event("warn", NilErr, formatMsg(l, <<"gorm slow query ">> \o SqlLog(elapsed, fr)))>>
    ELSE IF IsQueryCase(l)
    THEN <<Event("debug", NilErr, formatMsg(l, <<"gorm query ">> \o SqlLog(elapsed, fr)))>>
    ELSE <<>>

\* the early return taken only below Silent
TraceSilencedBelow(l) == l.logLevel < Silent

\* the early return of Trace
TraceSilenced(l) == l.logLevel <= Silent

\* the whole of Trace: how often fc ran, whether time.Since ran, the events
TraceBody(l, elapsed, fr, err) ==
    IF TraceSilenced(l)
    THEN [fcCalls |-> 0, elapsedTaken |-> FALSE, records |-> <<>>]
    ELSE [fcCalls |-> 1, elapsedTaken |-> TRUE, records |-> TraceSwitch(l, elapsed, fr, err)]

InitGorm ==
    /\ heap = <<GormDefaults>>
    /\ gbuilders = {1}
    /\ built = {}
    /\ adapters = {}
    /\ lastCall = NoCall
    \* nothing of the LogBuilder has run: zerolog's globals are at the library's defaults
    /\ lb = <<>>
    /\ loggers = <<>>
    /\ logLogger = [inst |-> 0, out |-> "stderr", tagStr |-> <<>>, b |-> 0]
    /\ globalLogger = 0
    /\ gLevel = 0
    /\ timeFieldFormat = "2006-01-02T15:04:05Z07:00"
    /\ output = [out |-> "none", line |-> <<>>]
    /\ calls = 0
    /\ builtAsGlobal = <<>>
    /\ pc = <<>>
    /\ target = <<>>
    /\ mine = <<>>
    /\ writing = <<>>
    /\ wrote = <<>>

NewGormLogger ==
    /\ Len(heap) < MaxGormObjs
    /\ heap' = Append(heap, GormDefaults)
    /\ gbuilders' = gbuilders \cup {Len(heap) + 1}
    /\ UNCHANGED <<built, adapters, lastCall>>
    /\ UNCHANGED <<logVars, concVars>>

GormWithTag(b, tag) ==
    /\ heap' = [heap EXCEPT ![b].tag = tag]
    /\ UNCHANGED <<gbuilders, built, adapters, lastCall>>
    /\ UNCHANGED <<logVars, concVars>>

WithLogLevel(b, level) ==
    /\ heap' = [heap EXCEPT ![b].logLevel = level]
    /\ UNCHANGED <<gbuilders, built, adapters, lastCall>>
    /\ UNCHANGED <<logVars, concVars>>

WithSlowThreshold(b, threshold) ==
    /\ heap' = [heap EXCEPT ![b].slowThreshold = threshold]
    /\ UNCHANGED <<gbuilders, built, adapters, lastCall>>
    /\ UNCHANGED <<logVars, concVars>>

WithSourceField(b, field) ==
    /\ heap' = [heap EXCEPT ![b].sourceField = field]
    /\ UNCHANGED <<gbuilders, built, adapters, lastCall>>
    /\ UNCHANGED <<logVars, concVars>>

WithSkipErrRecordNotFound(b, skip) ==
    /\ heap' = [heap EXCEPT ![b].skipErrRecordNotFound = skip]
    /\ UNCHANGED <<gbuilders, built, adapters, lastCall>>
    /\ UNCHANGED <<logVars, concVars>>

\* return &b.logger: the adapter is the builder's own field
GormBuild(b) ==
    /\ built' = built \cup {b}
    /\ adapters' = adapters \cup {b}
    /\ UNCHANGED <<heap, gbuilders, lastCall>>
    /\ UNCHANGED <<logVars, concVars>>

\* newLogger := *l; newLogger.logLevel = level; return &newLogger
LogMode(l, level) ==
    /\ Len(heap) < MaxGormObjs
    /\ heap' = Append(heap, [heap[l] EXCEPT !.logLevel = level])
    /\ adapters' = adapters \cup {Len(heap) + 1}
    /\ UNCHANGED <<gbuilders, built, lastCall>>
    /\ UNCHANGED <<logVars, concVars>>

Called(op, l, err, elapsed, res) ==
    [op |-> op, cfg |-> heap[l], err |-> err, elapsed |-> elapsed,
     fcCalls |-> res.fcCalls, elapsedTaken |-> res.elapsedTaken, records |-> res.records]

Plain(records) == [fcCalls |-> 0, elapsedTaken |-> FALSE, records |-> records]

GormInfo(l, msg) ==
    /\ lastCall' = Called("Info", l, NilErr, 0, Plain(InfoRecords(heap[l], msg)))
    /\ UNCHANGED <<heap, gbuilders, built, adapters>>
    /\ UNCHANGED <<logVars, concVars>>

GormWarn(l, msg) ==
    /\ lastCall' = Called("Warn", l, NilErr, 0, Plain(WarnRecords(heap[l], msg)))
    /\ UNCHANGED <<heap, gbuilders, built, adapters>>
    /\ UNCHANGED <<logVars, concVars>>

GormError(l, msg) ==
    /\ lastCall' = Called("Error", l, NilErr, 0, Plain(ErrorRecords(heap[l], msg)))
    /\ UNCHANGED <<heap, gbuilders, built, adapters>>
    /\ UNCHANGED <<logVars, concVars>>

Trace(l, elapsed, fr, err) ==
    /\ lastCall' = Called("Trace", l, err, elapsed, TraceBody(heap[l], elapsed, fr, err))
    /\ UNCHANGED <<heap, gbuilders, built, adapters>>
    /\ UNCHANGED <<logVars, concVars>>

Msgs == {<<"msg">>}

\* the builder's side: options, Build, and LogMode on what Build returned
NextGorm ==
    \/ NewGormLogger
    \/ \E b \in gbuilders, tag \in Tags : GormWithTag(b, tag)
    \/ \E b \in gbuilders, level \in LogLevels : WithLogLevel(b, level)
    \/ \E b \in gbuilders, threshold \in Thresholds : WithSlowThreshold(b, threshold)
    \/ \E b \in gbuilders, field \in SourceFields : WithSourceField(b, field)
    \/ \E b \in gbuilders, skip \in BOOLEAN : WithSkipErrRecordNotFound(b, skip)
    \/ \E b \in gbuilders : GormBuild(b)
    \/ \E l \in adapters, level \in LogLevels : LogMode(l, level)

\* the ORM's side: the callbacks on the adapter it was handed
NextCalls ==
    \/ \E l \in adapters, msg \in Msgs : GormInfo(l, msg)
    \/ \E l \in adapters, msg \in Msgs : GormWarn(l, msg)
    \/ \E l \in adapters, msg \in Msgs : GormError(l, msg)
    \/ \E l \in adapters, elapsed \in Elapsed, fr \in FcResults, err \in Errs :
          Trace(l, elapsed, fr, err)

\* every configuration the builder's options can produce
GormConfigs ==
    [logLevel : LogLevels, slowThreshold : Thresholds, sourceField : SourceFields,
     skipErrRecordNotFound : BOOLEAN, tag : Tags]

\* after NewGormLogger(), any option calls and Build()
InitCalls ==
    /\ heap \in {<<c>> : c \in GormConfigs}
    /\ gbuilders = {1}
    /\ built = {1}
    /\ adapters = {1}
    /\ lastCall = NoCall
    \* nothing of the LogBuilder has run: zerolog's globals are at the library's defaults
    /\ lb = <<>>
    /\ loggers = <<>>
    /\ logLogger = [inst |-> 0, out |-> "stderr", tagStr |-> <<>>, b |-> 0]
    /\ globalLogger = 0
    /\ gLevel = 0
    /\ timeFieldFormat = "2006-01-02T15:04:05Z07:00"
    /\ output = [out |-> "none", line |-> <<>>]
    /\ calls = 0
    /\ builtAsGlobal = <<>>
    /\ pc = <<>>
    /\ target = <<>>
    /\ mine = <<>>
    /\ writing = <<>>
    /\ wrote = <<>>

SpecGorm == InitGorm /\ [][NextGorm]_vars

SpecCalls == InitCalls /\ [][NextCalls]_vars

(***************************************************************************)
(* Claims about the adapter's callbacks, checked under SpecCalls           *)
(***************************************************************************)
\* the error branch of the decision policy, as the specification words it
ErrBranchApplies(c) ==
    /\ c.err # NilErr
    /\ (~c.cfg.skipErrRecordNotFound \/ ~ErrorsIs(c.err, ErrRecordNotFound))

\* the slow-query branch of the decision policy, as the specification words it
SlowBranchApplies(c) == c.cfg.slowThreshold > 0 /\ c.elapsed > c.cfg.slowThreshold

OneRecordAt(c, level) == Len(c.records) = 1 /\ c.records[1].level = level

IsSlowQueryMsg(msg) == \E i \in 1..Len(msg) : msg[i] = "gorm slow query "

\* C1 as stated: for every configuration, a Trace call with an error that is not a
\* suppressed record-not-found emits a record at error level carrying the error.
C1_AnyLevelErrorEmitted ==
    (lastCall.op = "Trace" /\ ErrBranchApplies(lastCall))
        => \E i \in 1..Len(lastCall.records) :
              lastCall.records[i].level = "error" /\ lastCall.records[i].err = lastCall.err

\* C1 amended: when logLevel >= Error, a Trace call with an error that is not a
\* suppressed record-not-found (errors.Is) emits exactly one record, at error level,
\* carrying the error, whatever the elapsed time and the threshold are.
C1_ErrorEmittedWhenEnabled ==
    (lastCall.op = "Trace" /\ lastCall.cfg.logLevel >= Error /\ ErrBranchApplies(lastCall))
        => OneRecordAt(lastCall, "error") /\ lastCall.records[1].err = lastCall.err

\* C1 witness: a slow query with a record-not-found error and no suppression is
\* logged as an error
C1_Witness ==
    /\ lastCall.op = "Trace"
    /\ ~lastCall.cfg.skipErrRecordNotFound
    /\ lastCall.err = ErrRecordNotFound
    /\ SlowBranchApplies(lastCall)
    /\ OneRecordAt(lastCall, "error")

\* C2 as stated: for every configuration, when the error branch does not apply and
\* the elapsed time exceeds a positive threshold, Trace emits a warn-level record
\* marked as a slow query.
C2_AnyLevelSlowWarned ==
    (lastCall.op = "Trace" /\ ~ErrBranchApplies(lastCall) /\ SlowBranchApplies(lastCall))
        => \E i \in 1..Len(lastCall.records) :
              lastCall.records[i].level = "warn" /\ IsSlowQueryMsg(lastCall.records[i].msg)

\* C2 amended: the same when logLevel >= Warn, and the warn record is the only one.
C2_SlowWarnedWhenEnabled ==
    (/\ lastCall.op = "Trace"
     /\ lastCall.cfg.logLevel >= Warn
     /\ ~ErrBranchApplies(lastCall)
     /\ SlowBranchApplies(lastCall))
        => OneRecordAt(lastCall, "warn") /\ IsSlowQueryMsg(lastCall.records[1].msg)

\* C2 witness: a suppressed record-not-found on a slow query at level Warn is
\* logged as a slow query
C2_Witness ==
    /\ lastCall.op = "Trace"
    /\ lastCall.cfg.logLevel = Warn
    /\ lastCall.cfg.skipErrRecordNotFound
    /\ ErrorsIs(lastCall.err, ErrRecordNotFound)
    /\ SlowBranchApplies(lastCall)
    /\ OneRecordAt(lastCall, "warn")

\* C3 as stated: for every configuration, when neither the error branch nor the
\* slow-query branch applies, Trace emits exactly one record, at debug level; and no
\* Trace call emits more than one record.
C3_AnyLevelDebugEmitted ==
    lastCall.op = "Trace" =>
        /\ Len(lastCall.records) <= 1
        /\ (~ErrBranchApplies(lastCall) /\ ~SlowBranchApplies(lastCall))
              => OneRecordAt(lastCall, "debug")

\* C3 amended: the same when logLevel >= Info; no Trace call, at any level, emits
\* more than one record.
C3_DebugEmittedWhenEnabled ==
    lastCall.op = "Trace" =>
        /\ Len(lastCall.records) <= 1
        /\ (/\ lastCall.cfg.logLevel >= Info
            /\ ~ErrBranchApplies(lastCall)
            /\ ~SlowBranchApplies(lastCall))
              => OneRecordAt(lastCall, "debug")

\* C3 witness: a suppressed record-not-found below the threshold is logged at debug
C3_Witness ==
    /\ lastCall.op = "Trace"
    /\ lastCall.cfg.skipErrRecordNotFound
    /\ lastCall.err = ErrRecordNotFound
    /\ lastCall.cfg.slowThreshold > 0
    /\ lastCall.elapsed < lastCall.cfg.slowThreshold
    /\ OneRecordAt(lastCall, "debug")

\* C4 as stated: every Trace call, at every configured level, takes the elapsed time
\* and calls fc exactly once.
C4_AnyLevelFcCalledOnce ==
    lastCall.op = "Trace" => lastCall.fcCalls = 1 /\ lastCall.elapsedTaken

\* C4 amended: a Trace call takes the elapsed time and calls fc exactly once when
\* logLevel > Silent, and returns without doing either when logLevel <= Silent.
C4_FcCalledOnceUnlessSilent ==
    lastCall.op = "Trace" =>
        IF lastCall.cfg.logLevel > Silent
        THEN lastCall.fcCalls = 1 /\ lastCall.elapsedTaken
        ELSE lastCall.fcCalls = 0 /\ ~lastCall.elapsedTaken /\ lastCall.records = <<>>

\* C4 witness: a Trace call at level Error, the lowest that is not silent, called fc
C4_Witness ==
    lastCall.op = "Trace" /\ lastCall.cfg.logLevel = Error /\ lastCall.fcCalls = 1

\* C5: Info, Warn and Error each emit exactly one record, at their own level, when
\* logLevel is at least Info, Warn, Error respectively, and nothing otherwise.
C5_LevelGatedCallbacks ==
    /\ lastCall.op = "Info" =>
          IF lastCall.cfg.logLevel >= Info
          THEN OneRecordAt(lastCall, "info") ELSE lastCall.records = <<>>
    /\ lastCall.op = "Warn" =>
          IF lastCall.cfg.logLevel >= Warn
          THEN OneRecordAt(lastCall, "warn") ELSE lastCall.records = <<>>
    /\ lastCall.op = "Error" =>
          IF lastCall.cfg.logLevel >= Error
          THEN OneRecordAt(lastCall, "error") ELSE lastCall.records = <<>>

\* C5 witness: at level Warn, a Warn call has emitted its record
C5_Witness ==
    lastCall.op = "Warn" /\ lastCall.cfg.logLevel = Warn /\ OneRecordAt(lastCall, "warn")

(***************************************************************************)
(* Claim about the adapter Build returns, checked under SpecGorm           *)
(***************************************************************************)
\* C9 as stated: once GormLoggerBuilder.Build has returned an adapter, no later
\* operation changes that adapter's configuration.
C9_BuiltAdapterFrozen == [][\A a \in built : heap'[a] = heap[a]]_vars


(***************************************************************************)
(* LogBuilder                                                              *)
(***************************************************************************)
MaxCalls == 6

Writers == {"stdout", "buf"}
LogTags == {<<>>, <<"API">>}

\* zerolog levels, by number
DebugLevel == 0
LevelNum(level) ==
    CASE level = "trace" -> 0 - 1
      [] level = "debug" -> DebugLevel
      [] level = "info" -> 1
      [] level = "warn" -> 2
      [] level = "error" -> 3
      [] level = "fatal" -> 4
      [] level = "panic" -> 5
ZeroLevels == {"trace", "debug", "info", "warn", "error", "fatal", "panic"}

TimeFormat == "15:04:05.000"

ToUpper(level) ==
    CASE level = "trace" -> "TRACE"
      [] level = "debug" -> "DEBUG"
      [] level = "info" -> "INFO"
      [] level = "warn" -> "WARN"
      [] level = "error" -> "ERROR"
      [] level = "fatal" -> "FATAL"
      [] level = "panic" -> "PANIC"

\* the characters tview's escape pattern allows inside a tag: anything but brackets
\* and the escape character
TagText(tok) == tok \notin {"[", "]", "ESC"}

\* the end of the match of \[([a-zA-Z0-9_,;: \-\.]*\[*)\] that starts at s[i] = "[":
\* the index of its "]", or 0 when there is no match at i
RECURSIVE MatchEnd(_, _, _)
MatchEnd(s, j, inBrackets) ==
    IF j > Len(s) THEN 0
    ELSE IF s[j] = "]" THEN j
    ELSE IF s[j] = "[" THEN MatchEnd(s, j + 1, TRUE)
    ELSE IF TagText(s[j]) /\ ~inBrackets THEN MatchEnd(s, j + 1, FALSE)
    ELSE 0

\* tview.Escape: every match "[x]" becomes "[x[]"
RECURSIVE EscapeFrom(_, _)
EscapeFrom(s, i) ==
    IF i > Len(s) THEN <<>>
    ELSE IF s[i] = "[" /\ MatchEnd(s, i + 1, FALSE) # 0
    THEN LET e == MatchEnd(s, i + 1, FALSE)
         IN  SubSeq(s, i, e - 1) \o <<"[", "]">> \o EscapeFrom(s, e + 1)
    ELSE <<s[i]>> \o EscapeFrom(s, i + 1)

Escape(s) == EscapeFrom(s, 1)

LevelColor(levelStr) ==
    CASE levelStr = "DEBUG" -> <<"34m">>
      [] levelStr = "INFO" -> <<"32m">>
      [] levelStr = "WARN" -> <<"33m">>
      [] levelStr = "ERROR" -> <<"31m">>
      [] levelStr = "FATAL" -> <<"31", ";", "1m">>
      [] OTHER -> <<"37m">>

ColorSeq(c, s) == <<"ESC", "[">> \o c \o s \o <<"ESC", "[", "0m">>

\* the level in its colour, before any escaping
ColoredLevel(level) == ColorSeq(LevelColor(ToUpper(level)), <<"[", ToUpper(level), "]">>)

\* consoleOutput.FormatLevel: the closure holds the builder b, not a copy of its field
FormatLevelCompat(lg) == lb[lg.b].tviewCompat

FormatLevel(lg, level) ==
    IF FormatLevelCompat(lg) THEN Escape(ColoredLevel(level)) ELSE ColoredLevel(level)

\* consoleOutput.FormatMessage: tagStr was rendered when Build ran
FormatMessage(lg, msg) ==
    IF lg.tagStr # <<>> THEN lg.tagStr \o <<" ">> \o msg ELSE msg

\* one record as a built logger renders it: the stream and the line
Render(lg, level, msg) ==
    [out |-> lg.out,
     line |-> <<TimeFormat, " ">> \o FormatLevel(lg, level) \o <<" ">> \o FormatMessage(lg, msg)]

\* the tag in magenta, as Build renders it once
TagStr(tag) == IF tag # <<>> THEN Color("35m", <<"[">> \o tag \o <<"]">>) ELSE <<>>

\* zerolog.New(consoleOutput).With().Timestamp().Logger() for builder b
NewLoggerValue(b, inst) == [inst |-> inst, out |-> lb[b].writer, tagStr |-> TagStr(lb[b].tag), b |-> b]

BuilderDefaults == [tviewCompat |-> FALSE, writer |-> "stdout", tag |-> <<>>, isGlobal |-> FALSE]

\* runs of at most MaxCalls calls
Tick == calls < MaxCalls /\ calls' = calls + 1

New ==
    /\ Tick
    /\ lb' = Append(lb, BuilderDefaults)
    /\ UNCHANGED <<loggers, logLogger, globalLogger, gLevel, timeFieldFormat, output, builtAsGlobal>>
    /\ UNCHANGED <<gormVars, concVars>>

WithTag(b, tag) ==
    /\ Tick
    /\ lb' = [lb EXCEPT ![b].tag = tag]
    /\ UNCHANGED <<loggers, logLogger, globalLogger, gLevel, timeFieldFormat, output, builtAsGlobal>>
    /\ UNCHANGED <<gormVars, concVars>>

AsGlobal(b) ==
    /\ Tick
    /\ lb' = [lb EXCEPT ![b].isGlobal = TRUE]
    /\ UNCHANGED <<loggers, logLogger, globalLogger, gLevel, timeFieldFormat, output, builtAsGlobal>>
    /\ UNCHANGED <<gormVars, concVars>>

WithTviewCompat(b) ==
    /\ Tick
    /\ lb' = [lb EXCEPT ![b].tviewCompat = TRUE]
    /\ UNCHANGED <<loggers, logLogger, globalLogger, gLevel, timeFieldFormat, output, builtAsGlobal>>
    /\ UNCHANGED <<gormVars, concVars>>

SetTviewCompat(b, tviewCompat) ==
    /\ Tick
    /\ lb' = [lb EXCEPT ![b].tviewCompat = tviewCompat]
    /\ UNCHANGED <<loggers, logLogger, globalLogger, gLevel, timeFieldFormat, output, builtAsGlobal>>
    /\ UNCHANGED <<gormVars, concVars>>

SetWriter(b, writer) ==
    /\ Tick
    /\ lb' = [lb EXCEPT ![b].writer = writer]
    /\ UNCHANGED <<loggers, logLogger, globalLogger, gLevel, timeFieldFormat, output, builtAsGlobal>>
    /\ UNCHANGED <<gormVars, concVars>>

WithWriter(b, writer) ==
    /\ Tick
    /\ lb' = [lb EXCEPT ![b].writer = writer]
    /\ UNCHANGED <<loggers, logLogger, globalLogger, gLevel, timeFieldFormat, output, builtAsGlobal>>
    /\ UNCHANGED <<gormVars, concVars>>

\* a Build that installs whatever the flag says
InstallsAlways(b) == TRUE

\* the test of Build's last block
InstallsGlobal(b) == lb[b].isGlobal

\* the process-wide logger after Build's last block
InstalledLogger(b, newLogger) == IF InstallsGlobal(b) THEN newLogger ELSE logLogger

\* a Build that forgets the retained reference
InstalledGlobalKept(b, inst) == globalLogger

InstalledGlobal(b, inst) == IF InstallsGlobal(b) THEN inst ELSE globalLogger

\* what Build leaves in zerolog's global level and time format
BuildGlobalLevel(b) == DebugLevel
BuildTimeFieldFormat(b) == TimeFormat

Build(b) ==
    /\ Tick
    /\ LET inst == Len(loggers) + 1
           newLogger == NewLoggerValue(b, inst)
       IN  /\ gLevel' = BuildGlobalLevel(b)
           /\ timeFieldFormat' = BuildTimeFieldFormat(b)
           /\ loggers' = Append(loggers, newLogger)
           /\ logLogger' = InstalledLogger(b, newLogger)
           /\ globalLogger' = InstalledGlobal(b, inst)
    /\ builtAsGlobal' = Append(builtAsGlobal, lb[b].isGlobal)
    /\ UNCHANGED <<lb, output>>
    /\ UNCHANGED <<gormVars, concVars>>

\* a record emitted through a built logger: zerolog drops it below the global level
Log(i, level, msg) ==
    /\ Tick
    /\ LevelNum(level) >= gLevel
    /\ output' = Render(loggers[i], level, msg)
    /\ UNCHANGED <<lb, loggers, logLogger, globalLogger, gLevel, timeFieldFormat, builtAsGlobal>>
    /\ UNCHANGED <<gormVars, concVars>>

Builders == 1..Len(lb)

NextLog ==
    \/ New
    \/ \E b \in Builders, tag \in LogTags : WithTag(b, tag)
    \/ \E b \in Builders : AsGlobal(b)
    \/ \E b \in Builders : WithTviewCompat(b)
    \/ \E b \in Builders, c \in BOOLEAN : SetTviewCompat(b, c)
    \/ \E b \in Builders, w \in Writers : SetWriter(b, w)
    \/ \E b \in Builders, w \in Writers : WithWriter(b, w)
    \/ \E b \in Builders : Build(b)
    \/ \E i \in 1..Len(loggers), level \in ZeroLevels, msg \in Msgs : Log(i, level, msg)

\* before any call: zerolog's globals are at the library's defaults, level debug and
\* time format RFC3339
InitLog ==
    /\ lb = <<>>
    /\ loggers = <<>>
    /\ logLogger = [inst |-> 0, out |-> "stderr", tagStr |-> <<>>, b |-> 0]
    /\ globalLogger = 0
    /\ gLevel = 0
    /\ timeFieldFormat = "2006-01-02T15:04:05Z07:00"
    /\ output = [out |-> "none", line |-> <<>>]
    /\ calls = 0
    /\ builtAsGlobal = <<>>
    /\ heap = <<>>
    /\ gbuilders = {}
    /\ built = {}
    /\ adapters = {}
    /\ lastCall = NoCall
    /\ pc = <<>>
    /\ target = <<>>
    /\ mine = <<>>
    /\ writing = <<>>
    /\ wrote = <<>>

SpecLog == InitLog /\ [][NextLog]_vars

(***************************************************************************)
(* Claims about LogBuilder, checked under SpecLog                          *)
(***************************************************************************)
GlobalBuilds == {i \in 1..Len(builtAsGlobal) : builtAsGlobal[i]}
LastGlobalBuild == CHOOSE m \in GlobalBuilds : \A i \in GlobalBuilds : i <= m

\* C6: once a Build has run with the global flag set, log.Logger and globalLogger
\* both denote the instance of the most recent such Build.
C6_GlobalIsLastGlobalBuild ==
    GlobalBuilds # {} =>
        /\ logLogger = loggers[LastGlobalBuild]
        /\ globalLogger = LastGlobalBuild

\* C6 witness: a local Build ran after a global one and the global one is still
\* installed
C6_Witness ==
    /\ GlobalBuilds # {}
    /\ LastGlobalBuild < Len(loggers)
    /\ globalLogger = LastGlobalBuild
    /\ logLogger.inst = LastGlobalBuild

\* the step is a Build call on a builder whose global flag is not set
LocalBuildStep ==
    /\ Len(builtAsGlobal') = Len(builtAsGlobal) + 1
    /\ ~builtAsGlobal'[Len(builtAsGlobal')]

\* C7 as stated: a Build on a builder whose global flag is not set leaves log.Logger,
\* globalLogger, the global minimum level and the global time format as they were.
C7_LocalBuildLeavesAllGlobals ==
    [][LocalBuildStep =>
          /\ logLogger' = logLogger
          /\ globalLogger' = globalLogger
          /\ gLevel' = gLevel
          /\ timeFieldFormat' = timeFieldFormat]_vars

\* C7 amended: such a Build leaves log.Logger and globalLogger as they were; like
\* every Build it sets the global minimum level to debug and the global time format
\* to 15:04:05.000.
C7_LocalBuildLeavesLoggerSlot ==
    [][LocalBuildStep =>
          /\ logLogger' = logLogger
          /\ globalLogger' = globalLogger
          /\ gLevel' = DebugLevel
          /\ timeFieldFormat' = TimeFormat]_vars

\* C7 witness: the last Build was local, an earlier one was global, and the global
\* one is still installed
C7_Witness ==
    /\ Len(builtAsGlobal) >= 2
    /\ builtAsGlobal[1]
    /\ ~builtAsGlobal[Len(builtAsGlobal)]
    /\ globalLogger # 0
    /\ globalLogger < Len(loggers)
    /\ logLogger = loggers[globalLogger]

\* C8 as stated: no later call changes how a logger that Build has returned renders
\* a record: its stream, its tag and its escaping mode are those of the Build call.
C8_RenderFrozen ==
    [][\A i \in 1..Len(loggers) : \A level \in ZeroLevels : \A msg \in Msgs :
          Render(loggers[i], level, msg)' = Render(loggers[i], level, msg)]_vars

(***************************************************************************)
(* Concurrent LogBuilder.Build calls                                       *)
(***************************************************************************)
NumProcs == 2
Procs == 1..NumProcs

\* the builders the concurrent calls run on: one made with AsGlobal(), one without
ConcBuilders == <<[BuilderDefaults EXCEPT !.isGlobal = TRUE], BuilderDefaults>>

\* the process-wide locations Build stores to
LoggerSlot == {"log.Logger", "globalLogger"}

InitConc ==
    /\ heap = <<>>
    /\ gbuilders = {}
    /\ built = {}
    /\ adapters = {}
    /\ lastCall = NoCall
    /\ lb = ConcBuilders
    /\ loggers = <<>>
    /\ logLogger = [inst |-> 0, out |-> "stderr", tagStr |-> <<>>, b |-> 0]
    /\ globalLogger = 0
    /\ gLevel = 0
    /\ timeFieldFormat = "2006-01-02T15:04:05Z07:00"
    /\ output = [out |-> "none", line |-> <<>>]
    /\ calls = 0
    /\ builtAsGlobal = <<>>
    /\ pc = [p \in Procs |-> "SetGlobalLevel"]
    /\ target \in [Procs -> 1..Len(ConcBuilders)]
    /\ mine = [p \in Procs |-> 0]
    /\ writing = [p \in Procs |-> "none"]
    /\ wrote = [p \in Procs |-> {}]

\* zerolog.SetGlobalLevel stores atomically
SetGlobalLevel(p) ==
    /\ pc[p] = "SetGlobalLevel"
    /\ gLevel' = BuildGlobalLevel(target[p])
    /\ wrote' = [wrote EXCEPT ![p] = @ \cup {"gLevel"}]
    /\ pc' = [pc EXCEPT ![p] = "TimeFieldFormat"]
    /\ UNCHANGED <<lb, loggers, logLogger, globalLogger, timeFieldFormat, output, calls,
                   builtAsGlobal, target, mine, writing>>
    /\ UNCHANGED gormVars

\* a plain store begins: until it ends, another store to loc is a data race
BeginStore(p, at, loc, next) ==
    /\ pc[p] = at
    /\ writing' = [writing EXCEPT ![p] = loc]
    /\ pc' = [pc EXCEPT ![p] = next]
    /\ UNCHANGED <<target, mine, wrote>>
    /\ UNCHANGED gormVars

EndStore(p, at, loc, next) ==
    /\ pc[p] = at
    /\ writing' = [writing EXCEPT ![p] = "none"]
    /\ wrote' = [wrote EXCEPT ![p] = @ \cup {loc}]
    /\ pc' = [pc EXCEPT ![p] = next]
    /\ UNCHANGED <<target, mine>>
    /\ UNCHANGED gormVars

\* zerolog.TimeFieldFormat = "15:04:05.000"
BeginTimeFieldFormat(p) ==
    /\ BeginStore(p, "TimeFieldFormat", "TimeFieldFormat", "TimeFieldFormatEnd")
    /\ UNCHANGED logVars

EndTimeFieldFormat(p) ==
    /\ EndStore(p, "TimeFieldFormatEnd", "TimeFieldFormat", "newLogger")
    /\ timeFieldFormat' = BuildTimeFieldFormat(target[p])
    /\ UNCHANGED <<lb, loggers, logLogger, globalLogger, gLevel, output, calls, builtAsGlobal>>

\* the test of b.isGlobal, negated
AfterNewLoggerNegated(p) == IF ~InstallsGlobal(target[p]) THEN "log.Logger" ELSE "done"

\* where a call goes after the test of b.isGlobal
AfterNewLogger(p) == IF InstallsGlobal(target[p]) THEN "log.Logger" ELSE "done"

\* newLogger := zerolog.New(consoleOutput).With().Timestamp().Logger(), then the test
\* of b.isGlobal
MakeNewLogger(p) ==
    /\ pc[p] = "newLogger"
    /\ loggers' = Append(loggers, NewLoggerValue(target[p], Len(loggers) + 1))
    /\ builtAsGlobal' = Append(builtAsGlobal, lb[target[p]].isGlobal)
    /\ mine' = [mine EXCEPT ![p] = Len(loggers) + 1]
    /\ pc' = [pc EXCEPT ![p] = AfterNewLogger(p)]
    /\ UNCHANGED <<lb, logLogger, globalLogger, gLevel, timeFieldFormat, output, calls,
                   target, writing, wrote>>
    /\ UNCHANGED gormVars

\* log.Logger = newLogger.  The stored value is several words, of which only the
\* writer's data pointer differs between two built loggers, so overlapping stores
\* leave the value of one of them.
BeginLogLogger(p) ==
    /\ BeginStore(p, "log.Logger", "log.Logger", "log.LoggerEnd")
    /\ UNCHANGED logVars

EndLogLogger(p) ==
    /\ EndStore(p, "log.LoggerEnd", "log.Logger", "globalLogger")
    /\ logLogger' = loggers[mine[p]]
    /\ UNCHANGED <<lb, loggers, globalLogger, gLevel, timeFieldFormat, output, calls,
                   builtAsGlobal>>

\* globalLogger = &newLogger
BeginGlobalLogger(p) ==
    /\ BeginStore(p, "globalLogger", "globalLogger", "globalLoggerEnd")
    /\ UNCHANGED logVars

EndGlobalLogger(p) ==
    /\ EndStore(p, "globalLoggerEnd", "globalLogger", "done")
    /\ globalLogger' = mine[p]
    /\ UNCHANGED <<lb, loggers, logLogger, gLevel, timeFieldFormat, output, calls,
                   builtAsGlobal>>

NextConc ==
    \/ \E p \in Procs : SetGlobalLevel(p)
    \/ \E p \in Procs : BeginTimeFieldFormat(p)
    \/ \E p \in Procs : EndTimeFieldFormat(p)
    \/ \E p \in Procs : MakeNewLogger(p)
    \/ \E p \in Procs : BeginLogLogger(p)
    \/ \E p \in Procs : EndLogLogger(p)
    \/ \E p \in Procs : BeginGlobalLogger(p)
    \/ \E p \in Procs : EndGlobalLogger(p)

SpecConc == InitConc /\ [][NextConc]_vars

IsGlobalCall(p) == lb[target[p]].isGlobal
AllDone == \A p \in Procs : pc[p] = "done"

\* two calls are in the middle of a plain store to the same location
Races(p, q, locs) == p # q /\ writing[p] \in locs /\ writing[p] = writing[q]

\* log.Logger and globalLogger each hold the instance of one of the global builds
SlotHoldsAGlobalBuild ==
    (AllDone /\ \E p \in Procs : IsGlobalCall(p)) =>
        /\ \E p \in Procs : IsGlobalCall(p) /\ logLogger = loggers[mine[p]]
        /\ \E p \in Procs : IsGlobalCall(p) /\ globalLogger = mine[p]

\* C10 as stated: two concurrent Build calls write the same process-wide memory, and
\* race on it, only if both have the global flag set; after concurrent global builds
\* the slot holds the instance of one of them.
C10_OnlyGlobalBuildsShareWrites ==
    /\ \A p, q \in Procs :
          (p # q /\ wrote[p] \cap wrote[q] # {}) => IsGlobalCall(p) /\ IsGlobalCall(q)
    /\ \A p, q \in Procs :
          Races(p, q, LoggerSlot \cup {"TimeFieldFormat"}) => IsGlobalCall(p) /\ IsGlobalCall(q)
    /\ SlotHoldsAGlobalBuild

\* C10 amended: every Build call stores to the global level and to the global time
\* format, so any two concurrent calls write both; log.Logger and globalLogger are
\* stored to by calls with the global flag set only, so two calls write or race on
\* them only if both have the flag set; after concurrent global builds log.Logger and
\* globalLogger each hold the instance of one of them.
C10_OnlyGlobalBuildsShareLoggerSlot ==
    /\ \A p \in Procs : pc[p] = "done" =>
          wrote[p] = {"gLevel", "TimeFieldFormat"} \cup (IF IsGlobalCall(p) THEN LoggerSlot ELSE {})
    /\ \A p, q \in Procs :
          (p # q /\ wrote[p] \cap wrote[q] \cap LoggerSlot # {})
              => IsGlobalCall(p) /\ IsGlobalCall(q)
    /\ \A p, q \in Procs : Races(p, q, LoggerSlot) => IsGlobalCall(p) /\ IsGlobalCall(q)
    /\ SlotHoldsAGlobalBuild

\* C10 witness: two global builds have overlapped and log.Logger holds the instance
\* of one while globalLogger points at the other's
C10_Witness ==
    /\ AllDone
    /\ \E p, q \in Procs : p # q /\ IsGlobalCall(p) /\ IsGlobalCall(q)
    /\ logLogger.inst # globalLogger

====
